---- MODULE Spec2Model ----
(***************************************************************************)
(* A model of the Outly backend (src/index.js, lines 1-335): registration, *)
(* login, the JWT auth gate, the role gate and the two gated write routes. *)
(*                                                                         *)
(* Text is a sequence of one-character strings, so that trim, lowercase,   *)
(* length and the character tests are computed as the code computes them.  *)
(* A request-body field is a JavaScript value: a record with its typeof    *)
(* tag `t`, its text `s` (strings) and its number `n` (numbers).           *)
(***************************************************************************)
EXTENDS Integers, Sequences, FiniteSets, TLC

VARIABLES
  users,    \* rows of the users table
  clubs,    \* rows of the clubs table
  events,   \* rows of the events table
  secret,   \* process.env.JWT_SECRET
  now,      \* the wall clock, in ticks (TicksPerSecond ticks to a second)
  reg,      \* the POST /auth/register requests suspended at an await
  issued,   \* history: tokens returned by login that a client kept
  authors,  \* history: who created each event
  resp,     \* the response of the request that completed last
  obs       \* history: what that request was given and what it did

vars == <<users, clubs, events, secret, now, reg, issued, authors, resp, obs>>

----------------------------------------------------------------------------
(* Bounds of the model *)

MaxInFlight == 2
MaxTokens == 1
MaxClubs == 2
MaxEvents == 1
TicksPerSecond == 2
ClockWindow == 3

(* Program constants *)

MinPasswordLength == 8
MinUsernameLength == 3
MaxUsernameLength == 20
BcryptCost == 12
ThirtyDays == 2592000

----------------------------------------------------------------------------
(* JavaScript values *)

JSUndefined == [t |-> "undefined", s |-> <<>>, n |-> 0]
JSNull == [t |-> "object", s |-> <<>>, n |-> 0]
JSStr(s) == [t |-> "string", s |-> s, n |-> 0]
JSNum(n) == [t |-> "number", s |-> <<>>, n |-> n]

\* !v
Falsy(v) ==
  \/ v.t = "undefined"
  \/ v.t = "object"
  \/ v.t = "string" /\ v.s = <<>>
  \/ v.t = "number" /\ v.n = 0

\* typeof v
TypeOf(v) == v.t

----------------------------------------------------------------------------
(* String.prototype operations *)

IsWhiteSpace(c) == c = " "

ToLowerChar(c) ==
  CASE c = "A" -> "a"
    [] c = "B" -> "b"
    [] c = "P" -> "p"
    [] OTHER -> c

ToLowerCase(s) == [i \in 1..Len(s) |-> ToLowerChar(s[i])]

RECURSIVE TrimStart(_)
TrimStart(s) ==
  IF s # <<>> /\ IsWhiteSpace(Head(s)) THEN TrimStart(Tail(s)) ELSE s

RECURSIVE TrimEnd(_)
TrimEnd(s) ==
  IF s # <<>> /\ IsWhiteSpace(s[Len(s)]) THEN TrimEnd(SubSeq(s, 1, Len(s) - 1)) ELSE s

Trim(s) == TrimEnd(TrimStart(s))

Includes(s, c) == \E i \in 1..Len(s) : s[i] = c

\* /^[a-zA-Z0-9_]+$/
WordChars == {"a", "b", "c", "d", "m", "o", "p", "s", "x", "y",
              "A", "B", "P", "1", "2", "3", "4", "_"}

MatchesUsernamePattern(s) == s # <<>> /\ \A i \in 1..Len(s) : s[i] \in WordChars

----------------------------------------------------------------------------
(* Sample texts the requests are built from *)

Repeat(c, n) == [i \in 1..n |-> c]

EmailAB == <<"a", "@", "b">>
EmailABPadded == <<" ", "A", "@", "b", " ">>
EmailABUpper == <<"A", "@", "B">>
EmailCD == <<"c", "@", "d">>
EmailNoAt == <<"a", "b">>
EmailUnknown == <<"y", "@", "y">>

Pass8 == <<"p", "a", "s", "s", "1", "2", "3", "4">>
Pass8Upper == <<"P", "a", "s", "s", "1", "2", "3", "4">>
Pass8Padded == <<" ", "p", "a", "s", "s", "1", "2", "3">>
Pass8Trailing == <<"p", "a", "s", "s", "1", "2", "3", "4", " ">>
Pass7 == <<"p", "a", "s", "s", "1", "2", "3">>

NameBob == <<"b", "o", "b">>
NameBobPadded == <<" ", "b", "o", "b", " ">>
NameAmy == <<"a", "m", "y">>
NameBo == <<"b", "o">>
NameBlank == <<" ", " ", " ">>
NameDash == <<"b", "-", "b">>
NameLongest == Repeat("x", MaxUsernameLength)
NameTooLong == Repeat("x", MaxUsernameLength + 1)

----------------------------------------------------------------------------
(* bcrypt *)

\* bcrypt.hash(password, cost): the digest stands for its plaintext and cost
BcryptHash(password, cost) == [alg |-> "bcrypt", cost |-> cost, of |-> password]

\* bcrypt.compare(password, digest)
BcryptCompare(password, digest) == digest.of = password

----------------------------------------------------------------------------
(* The relational store *)

SeedUsers ==
  { [id |-> 1, email |-> <<"x", "@", "1">>, username |-> <<"x", "_", "1">>,
     password_hash |-> BcryptHash(Pass8, BcryptCost), role |-> "admin"],
    [id |-> 2, email |-> <<"x", "@", "2">>, username |-> <<"x", "_", "2">>,
     password_hash |-> BcryptHash(Pass8, BcryptCost), role |-> "business"],
    [id |-> 3, email |-> <<"x", "@", "3">>, username |-> <<"x", "_", "3">>,
     password_hash |-> BcryptHash(Pass8, BcryptCost), role |-> "business"],
    [id |-> 4, email |-> <<"x", "@", "4">>, username |-> <<"x", "_", "4">>,
     password_hash |-> BcryptHash(Pass8, BcryptCost), role |-> "user"] }

\* club 1 belongs to user 2
SeedClubs == { [id |-> 1, owner_user_id |-> JSNum(2)] }

MaxOf(S) == CHOOSE m \in S : \A x \in S : x <= m

\* the serial primary key of a new row
NextId(rows) == IF rows = {} THEN 1 ELSE MaxOf({r.id : r \in rows}) + 1

\* SELECT id FROM users WHERE email=$1
SelectUserByEmail(us, email) == {u \in us : u.email = email}

\* SELECT id FROM users WHERE username=$1
SelectUserByUsername(us, username) == {u \in us : u.username = username}

\* the UNIQUE constraints of users.email and users.username
UniqueViolation(us, email, username) ==
  \E u \in us : u.email = email \/ u.username = username

\* INSERT INTO users (email, password_hash, username): role takes its default
InsertUser(us, email, passwordHash, username) ==
  us \cup { [id |-> NextId(us), email |-> email, username |-> username,
             password_hash |-> passwordHash, role |-> "user"] }

----------------------------------------------------------------------------
(* Responses *)

Send(status, text) == [status |-> status, send |-> text]

Reply(op, r) == [op |-> op, status |-> r.status, send |-> r.send]

NoResp == [op |-> "none", status |-> 0, send |-> ""]
NoObs == [op |-> "none"]

----------------------------------------------------------------------------
(* POST /auth/register *)

\* RegisterValidate with the email used as sent, neither trimmed nor lowercased
RegisterValidateAsSent(body) ==
  IF Falsy(body.email) \/ Falsy(body.password) \/ Falsy(body.username)
  THEN [ok |-> FALSE, res |-> Send(400, "Missing email, password, or username.")]
  ELSE IF TypeOf(body.email) # "string" \/ TypeOf(body.password) # "string"
          \/ TypeOf(body.username) # "string"
  THEN [ok |-> FALSE, res |-> Send(400, "Invalid input types.")]
  ELSE
    LET cleanEmail == body.email.s
        cleanUsername == Trim(body.username.s)
        password == body.password.s
    IN  IF ~Includes(cleanEmail, "@")
        THEN [ok |-> FALSE, res |-> Send(400, "Invalid email.")]
        ELSE IF Len(password) < MinPasswordLength
        THEN [ok |-> FALSE, res |-> Send(400, "Password too short.")]
        ELSE IF Len(cleanUsername) < MinUsernameLength
        THEN [ok |-> FALSE, res |-> Send(400, "Username too short.")]
        ELSE IF Len(cleanUsername) > MaxUsernameLength
        THEN [ok |-> FALSE, res |-> Send(400, "Username too long.")]
        ELSE IF ~MatchesUsernamePattern(cleanUsername)
        THEN [ok |-> FALSE,
              res |-> Send(400, "Username invalid. Use letters, numbers, underscore.")]
        ELSE [ok |-> TRUE, cleanEmail |-> cleanEmail,
              cleanUsername |-> cleanUsername, password |-> password]

\* RegisterValidate with the password length checked before the email shape
RegisterValidatePasswordFirst(body) ==
  IF Falsy(body.email) \/ Falsy(body.password) \/ Falsy(body.username)
  THEN [ok |-> FALSE, res |-> Send(400, "Missing email, password, or username.")]
  ELSE IF TypeOf(body.email) # "string" \/ TypeOf(body.password) # "string"
          \/ TypeOf(body.username) # "string"
  THEN [ok |-> FALSE, res |-> Send(400, "Invalid input types.")]
  ELSE
    LET cleanEmail == ToLowerCase(Trim(body.email.s))
        cleanUsername == Trim(body.username.s)
        password == body.password.s
    IN  IF Len(password) < MinPasswordLength
        THEN [ok |-> FALSE, res |-> Send(400, "Password too short.")]
        ELSE IF ~Includes(cleanEmail, "@")
        THEN [ok |-> FALSE, res |-> Send(400, "Invalid email.")]
        ELSE IF Len(cleanUsername) < MinUsernameLength
        THEN [ok |-> FALSE, res |-> Send(400, "Username too short.")]
        ELSE IF Len(cleanUsername) > MaxUsernameLength
        THEN [ok |-> FALSE, res |-> Send(400, "Username too long.")]
        ELSE IF ~MatchesUsernamePattern(cleanUsername)
        THEN [ok |-> FALSE,
              res |-> Send(400, "Username invalid. Use letters, numbers, underscore.")]
        ELSE [ok |-> TRUE, cleanEmail |-> cleanEmail,
              cleanUsername |-> cleanUsername, password |-> password]

\* the synchronous head of the handler: presence, types, normalisation, shape
RegisterValidate(body) ==
  IF Falsy(body.email) \/ Falsy(body.password) \/ Falsy(body.username)
  THEN [ok |-> FALSE, res |-> Send(400, "Missing email, password, or username.")]
  ELSE IF TypeOf(body.email) # "string" \/ TypeOf(body.password) # "string"
          \/ TypeOf(body.username) # "string"
  THEN [ok |-> FALSE, res |-> Send(400, "Invalid input types.")]
  ELSE
    LET cleanEmail == ToLowerCase(Trim(body.email.s))
        cleanUsername == Trim(body.username.s)
        password == body.password.s
    IN  IF ~Includes(cleanEmail, "@")
        THEN [ok |-> FALSE, res |-> Send(400, "Invalid email.")]
        ELSE IF Len(password) < MinPasswordLength
        THEN [ok |-> FALSE, res |-> Send(400, "Password too short.")]
        ELSE IF Len(cleanUsername) < MinUsernameLength
        THEN [ok |-> FALSE, res |-> Send(400, "Username too short.")]
        ELSE IF Len(cleanUsername) > MaxUsernameLength
        THEN [ok |-> FALSE, res |-> Send(400, "Username too long.")]
        ELSE IF ~MatchesUsernamePattern(cleanUsername)
        THEN [ok |-> FALSE,
              res |-> Send(400, "Username invalid. Use letters, numbers, underscore.")]
        ELSE [ok |-> TRUE, cleanEmail |-> cleanEmail,
              cleanUsername |-> cleanUsername, password |-> password]

\* if (existingEmail.rows.length > 0) return 409
EmailCheck(rows) ==
  IF Cardinality(rows) > 0
  THEN [ok |-> FALSE, res |-> Send(409, "Email already in use.")]
  ELSE [ok |-> TRUE]

\* if (existingUsername.rows.length > 0) return 409
UsernameCheck(rows) ==
  IF Cardinality(rows) > 0
  THEN [ok |-> FALSE, res |-> Send(409, "Username already in use.")]
  ELSE [ok |-> TRUE]

\* catch (err) { return res.status(500).send("Server error.") }
RegisterCatch == Send(500, "Server error.")

Slots == 1..MaxInFlight

IdleSlot == [pc |-> "idle"]

Busy(i) == reg[i].pc # "idle"

\* a request arrives: the handler runs to its first await
RegisterStart(i, body) ==
  /\ ~Busy(i)
  /\ LET v == RegisterValidate(body)
         overlap == \E j \in Slots : j # i /\ Busy(j)
     IN  IF ~v.ok
         THEN /\ resp' = Reply("register", v.res)
              /\ obs' = [op |-> "register", body |-> body, added |-> FALSE,
                         insertRejected |-> FALSE, overlapped |-> overlap,
                         sameAtStart |-> FALSE, freshAtStart |-> FALSE]
              /\ UNCHANGED reg
         ELSE /\ reg' = [j \in Slots |->
                   IF j = i
                   THEN [pc |-> "selectEmail", body |-> body,
                         cleanEmail |-> v.cleanEmail,
                         cleanUsername |-> v.cleanUsername,
                         password |-> v.password,
                         overlapped |-> overlap,
                         sameAtStart |-> \E u \in users :
                            u.email = v.cleanEmail /\ u.username = v.cleanUsername,
                         freshAtStart |->
                            ~UniqueViolation(users, v.cleanEmail, v.cleanUsername)]
                   ELSE IF Busy(j) THEN [reg[j] EXCEPT !.overlapped = TRUE]
                   ELSE reg[j]]
              /\ UNCHANGED <<resp, obs>>
  /\ UNCHANGED <<users, clubs, events, secret, now, issued, authors>>

RegisterObs(i, added, rejected) ==
  [op |-> "register", body |-> reg[i].body, added |-> added,
   insertRejected |-> rejected, overlapped |-> reg[i].overlapped,
   sameAtStart |-> reg[i].sameAtStart, freshAtStart |-> reg[i].freshAtStart]

\* the email SELECT returns
RegisterEmailSelected(i) ==
  /\ reg[i].pc = "selectEmail"
  /\ LET c == EmailCheck(SelectUserByEmail(users, reg[i].cleanEmail))
     IN  IF ~c.ok
         THEN /\ resp' = Reply("register", c.res)
              /\ obs' = RegisterObs(i, FALSE, FALSE)
              /\ reg' = [reg EXCEPT ![i] = IdleSlot]
         ELSE /\ reg' = [reg EXCEPT ![i].pc = "selectUsername"]
              /\ UNCHANGED <<resp, obs>>
  /\ UNCHANGED <<users, clubs, events, secret, now, issued, authors>>

\* the username SELECT returns; the password is hashed and the INSERT is sent
RegisterUsernameSelected(i) ==
  /\ reg[i].pc = "selectUsername"
  /\ LET c == UsernameCheck(SelectUserByUsername(users, reg[i].cleanUsername))
     IN  IF ~c.ok
         THEN /\ resp' = Reply("register", c.res)
              /\ obs' = RegisterObs(i, FALSE, FALSE)
              /\ reg' = [reg EXCEPT ![i] = IdleSlot]
         ELSE /\ reg' = [reg EXCEPT ![i].pc = "insert"]
              /\ UNCHANGED <<resp, obs>>
  /\ UNCHANGED <<users, clubs, events, secret, now, issued, authors>>

\* the INSERT returns, or throws on a uniqueness violation
RegisterInserted(i) ==
  /\ reg[i].pc = "insert"
  /\ IF UniqueViolation(users, reg[i].cleanEmail, reg[i].cleanUsername)
     THEN /\ resp' = Reply("register", RegisterCatch)
          /\ obs' = RegisterObs(i, FALSE, TRUE)
          /\ UNCHANGED users
     ELSE /\ users' = InsertUser(users, reg[i].cleanEmail,
                                 BcryptHash(reg[i].password, BcryptCost),
                                 reg[i].cleanUsername)
          /\ resp' = Reply("register", Send(201, "User created."))
          /\ obs' = RegisterObs(i, TRUE, FALSE)
  /\ reg' = [reg EXCEPT ![i] = IdleSlot]
  /\ UNCHANGED <<clubs, events, secret, now, issued, authors>>

----------------------------------------------------------------------------
(* jsonwebtoken *)

\* process.env.JWT_SECRET: not set, set to the empty text, or set
SecretConfigs ==
  { [defined |-> FALSE, value |-> ""],
    [defined |-> TRUE, value |-> ""],
    [defined |-> TRUE, value |-> "k1"] }

\* !process.env.JWT_SECRET
SecretMissing(sec) == ~sec.defined \/ sec.value = ""

\* Math.floor(Date.now() / 1000)
NowSeconds(tick) == tick \div TicksPerSecond

\* jwt.sign(payload, key, { expiresIn }): iat and exp are whole seconds, and the
\* signature binds the key to the claims it was computed over
JwtSign(payload, key, expiresIn, tick) ==
  LET iat == NowSeconds(tick)
      claims == [userId |-> payload.userId, email |-> payload.email,
                 username |-> payload.username, role |-> payload.role,
                 iat |-> iat, exp |-> iat + expiresIn]
  IN  [kind |-> "jwt", claims |-> claims, sig |-> [key |-> key, over |-> claims]]

\* JwtVerify decoding the token without checking its signature
JwtVerifyUnsigned(token, key, tick) ==
  IF token.kind # "jwt"
  THEN [ok |-> FALSE, err |-> "jwt malformed"]
  ELSE IF NowSeconds(tick) >= token.claims.exp
  THEN [ok |-> FALSE, err |-> "jwt expired"]
  ELSE [ok |-> TRUE, payload |-> token.claims]

\* JwtVerify still accepting the token in the second it expires
JwtVerifyLate(token, key, tick) ==
  IF token.kind # "jwt"
  THEN [ok |-> FALSE, err |-> "jwt malformed"]
  ELSE IF token.sig.key # key \/ token.sig.over # token.claims
  THEN [ok |-> FALSE, err |-> "invalid signature"]
  ELSE IF NowSeconds(tick) > token.claims.exp
  THEN [ok |-> FALSE, err |-> "jwt expired"]
  ELSE [ok |-> TRUE, payload |-> token.claims]

\* jwt.verify(token, key): malformed, then the signature, then the expiry
JwtVerify(token, key, tick) ==
  IF token.kind # "jwt"
  THEN [ok |-> FALSE, err |-> "jwt malformed"]
  ELSE IF token.sig.key # key \/ token.sig.over # token.claims
  THEN [ok |-> FALSE, err |-> "invalid signature"]
  ELSE IF NowSeconds(tick) >= token.claims.exp
  THEN [ok |-> FALSE, err |-> "jwt expired"]
  ELSE [ok |-> TRUE, payload |-> token.claims]

----------------------------------------------------------------------------
(* POST /auth/login *)

\* LoginHandle with the signing secret checked before the password
LoginHandleSecretFirst(us, sec, tick, body) ==
  IF Falsy(body.email) \/ Falsy(body.password)
  THEN Send(400, "Missing email or password.")
  ELSE IF TypeOf(body.email) # "string" \/ TypeOf(body.password) # "string"
  THEN Send(400, "Invalid input types.")
  ELSE
    LET cleanEmail == ToLowerCase(Trim(body.email.s))
        rows == {u \in us : u.email = cleanEmail}
    IN  IF Cardinality(rows) = 0
        THEN Send(401, "Invalid credentials.")
        ELSE
          LET user == CHOOSE u \in rows : \A w \in rows : u.id <= w.id
          IN  IF SecretMissing(sec)
              THEN Send(500, "JWT_SECRET not set.")
              ELSE IF ~BcryptCompare(body.password.s, user.password_hash)
              THEN Send(401, "Invalid credentials.")
              ELSE [status |-> 200, send |-> "json",
                    token |-> JwtSign([userId |-> user.id, email |-> user.email,
                                       username |-> user.username, role |-> user.role],
                                      sec.value, ThirtyDays, tick)]

\* LoginHandle looking the email up as sent, neither trimmed nor lowercased
LoginHandleAsSent(us, sec, tick, body) ==
  IF Falsy(body.email) \/ Falsy(body.password)
  THEN Send(400, "Missing email or password.")
  ELSE IF TypeOf(body.email) # "string" \/ TypeOf(body.password) # "string"
  THEN Send(400, "Invalid input types.")
  ELSE
    LET cleanEmail == body.email.s
        rows == {u \in us : u.email = cleanEmail}
    IN  IF Cardinality(rows) = 0
        THEN Send(401, "Invalid credentials.")
        ELSE
          LET user == CHOOSE u \in rows : \A w \in rows : u.id <= w.id
          IN  IF ~BcryptCompare(body.password.s, user.password_hash)
              THEN Send(401, "Invalid credentials.")
              ELSE IF SecretMissing(sec)
              THEN Send(500, "JWT_SECRET not set.")
              ELSE [status |-> 200, send |-> "json",
                    token |-> JwtSign([userId |-> user.id, email |-> user.email,
                                       username |-> user.username, role |-> user.role],
                                      sec.value, ThirtyDays, tick)]

\* LoginHandle signing with a built-in key when the secret is not set
LoginHandleFallbackSecret(us, sec, tick, body) ==
  IF Falsy(body.email) \/ Falsy(body.password)
  THEN Send(400, "Missing email or password.")
  ELSE IF TypeOf(body.email) # "string" \/ TypeOf(body.password) # "string"
  THEN Send(400, "Invalid input types.")
  ELSE
    LET cleanEmail == ToLowerCase(Trim(body.email.s))
        rows == {u \in us : u.email = cleanEmail}
    IN  IF Cardinality(rows) = 0
        THEN Send(401, "Invalid credentials.")
        ELSE
          LET user == CHOOSE u \in rows : \A w \in rows : u.id <= w.id
          IN  IF ~BcryptCompare(body.password.s, user.password_hash)
              THEN Send(401, "Invalid credentials.")
              ELSE [status |-> 200, send |-> "json",
                    token |-> JwtSign([userId |-> user.id, email |-> user.email,
                                       username |-> user.username, role |-> user.role],
                                      IF SecretMissing(sec) THEN "dev" ELSE sec.value,
                                      ThirtyDays, tick)]

LoginHandle(us, sec, tick, body) ==
  IF Falsy(body.email) \/ Falsy(body.password)
  THEN Send(400, "Missing email or password.")
  ELSE IF TypeOf(body.email) # "string" \/ TypeOf(body.password) # "string"
  THEN Send(400, "Invalid input types.")
  ELSE
    LET cleanEmail == ToLowerCase(Trim(body.email.s))
        rows == {u \in us : u.email = cleanEmail}
    IN  IF Cardinality(rows) = 0
        THEN Send(401, "Invalid credentials.")
        ELSE
          LET user == CHOOSE u \in rows : \A w \in rows : u.id <= w.id
          IN  IF ~BcryptCompare(body.password.s, user.password_hash)
              THEN Send(401, "Invalid credentials.")
              ELSE IF SecretMissing(sec)
              THEN Send(500, "JWT_SECRET not set.")
              ELSE [status |-> 200, send |-> "json",
                    token |-> JwtSign([userId |-> user.id, email |-> user.email,
                                       username |-> user.username, role |-> user.role],
                                      sec.value, ThirtyDays, tick)]

\* The handler reads the store once and writes nothing, and no handler updates
\* or deletes a user, so its awaits are taken in one step.  A client keeps the
\* token it is given, in place of an older one when it holds MaxTokens already,
\* or drops it.
Login(body) ==
  /\ LET r == LoginHandle(users, secret, now, body)
     IN  /\ resp' = IF r.status = 200
                    THEN [op |-> "login", status |-> r.status, send |-> r.send,
                          token |-> r.token]
                    ELSE Reply("login", r)
         /\ obs' = [op |-> "login", body |-> body]
         /\ \/ UNCHANGED issued
            \/ /\ r.status = 200
               /\ Cardinality(issued) < MaxTokens
               /\ issued' = issued \cup {[jwt |-> r.token, at |-> now]}
            \/ /\ r.status = 200
               /\ Cardinality(issued) = MaxTokens
               /\ \E old \in issued :
                    issued' = (issued \ {old}) \cup {[jwt |-> r.token, at |-> now]}
  /\ UNCHANGED <<users, clubs, events, secret, now, reg, authors>>

----------------------------------------------------------------------------
(* requireAuth and requireRole *)

NoHeader == [present |-> FALSE, scheme |-> "", rest |-> [kind |-> "empty"]]

\* an Authorization header: its first seven characters and the rest
Header(scheme, rest) == [present |-> TRUE, scheme |-> scheme, rest |-> rest]

NoIdentity == [attached |-> FALSE]

RequireAuth(header, sec, tick) ==
  LET token == IF header.present /\ header.scheme = "Bearer "
               THEN header.rest
               ELSE [kind |-> "null"]
  IN  IF token.kind \in {"null", "empty"}
      THEN [next |-> FALSE, res |-> Send(401, "Missing token."), user |-> NoIdentity]
      ELSE IF SecretMissing(sec)
      THEN [next |-> FALSE, res |-> Send(500, "JWT_SECRET not set."), user |-> NoIdentity]
      ELSE
        LET v == JwtVerify(token, sec.value, tick)
        IN  IF v.ok
            THEN [next |-> TRUE, user |-> [attached |-> TRUE, payload |-> v.payload]]
            ELSE [next |-> FALSE, res |-> Send(401, "Invalid token."), user |-> NoIdentity]

\* RequireRole letting every authenticated caller through
RequireRoleAnyone(allowed, user) ==
  IF ~user.attached
  THEN [next |-> FALSE, res |-> Send(401, "Unauthorized.")]
  ELSE [next |-> TRUE]

RequireRole(allowed, user) ==
  IF ~user.attached
  THEN [next |-> FALSE, res |-> Send(401, "Unauthorized.")]
  ELSE IF user.payload.role \notin allowed
  THEN [next |-> FALSE, res |-> Send(403, "Forbidden.")]
  ELSE [next |-> TRUE]

\* requireAuth, requireRole("business", "admin"), as POST /clubs and POST /events
\* chain them
BusinessOrAdmin == {"business", "admin"}

Guards(header, sec, tick) ==
  LET a == RequireAuth(header, sec, tick)
  IN  IF ~a.next THEN a
      ELSE LET r == RequireRole(BusinessOrAdmin, a.user)
           IN  IF ~r.next THEN [next |-> FALSE, res |-> r.res, user |-> a.user]
               ELSE a

----------------------------------------------------------------------------
(* GET /me, POST /clubs, POST /events *)

\* Number(v): a number, null as 0, anything else NaN
ToNumber(v) ==
  IF v.t = "number" THEN [nan |-> FALSE, n |-> v.n]
  ELSE IF v.t = "object" THEN [nan |-> FALSE, n |-> 0]
  ELSE [nan |-> TRUE, n |-> 0]

\* the ownership comparison left out
NumbersNeverDiffer(a, b) == FALSE

\* a !== b on numbers: NaN differs from everything
NumbersDiffer(a, b) == a.nan \/ b.nan \/ a.n # b.n

GatedObs(op, header, body, g, ran) ==
  [op |-> op, header |-> header, body |-> body, passed |-> g.next,
   user |-> g.user, ran |-> ran]

\* The handler reads the store once, so its await is taken in one step.
GetMe(header) ==
  /\ LET g == RequireAuth(header, secret, now)
     IN  IF ~g.next
         THEN /\ resp' = Reply("me", g.res)
              /\ obs' = GatedObs("me", header, JSUndefined, g, FALSE)
         ELSE LET rows == {u \in users : u.id = g.user.payload.userId}
              IN  /\ resp' = IF Cardinality(rows) = 0
                             THEN Reply("me", Send(404, "User not found."))
                             ELSE [op |-> "me", status |-> 200, send |-> "json",
                                   row |-> CHOOSE u \in rows : TRUE]
                  /\ obs' = GatedObs("me", header, JSUndefined, g, TRUE)
  /\ UNCHANGED <<users, clubs, events, secret, now, reg, issued, authors>>

\* Of a club row the model keeps the key and the owner; the profile columns
\* take the body's values or their defaults and no handler reads them back
\* except min_age and genres as an event's defaults.
PostClubs(header, body) ==
  /\ LET g == Guards(header, secret, now)
     IN  IF ~g.next
         THEN /\ resp' = Reply("postClubs", g.res)
              /\ obs' = GatedObs("postClubs", header, body, g, FALSE)
              /\ UNCHANGED clubs
         ELSE IF Falsy(body.name)
         THEN /\ resp' = Reply("postClubs", Send(400, "Missing name."))
              /\ obs' = GatedObs("postClubs", header, body, g, TRUE)
              /\ UNCHANGED clubs
         ELSE LET row == [id |-> NextId(clubs),
                          owner_user_id |-> JSNum(g.user.payload.userId)]
              IN  /\ Cardinality(clubs) < MaxClubs
                  /\ clubs' = clubs \cup {row}
                  /\ resp' = [op |-> "postClubs", status |-> 201, send |-> "json",
                              row |-> row]
                  /\ obs' = GatedObs("postClubs", header, body, g, TRUE)
  /\ UNCHANGED <<users, events, secret, now, reg, issued, authors>>

\* No handler updates or deletes a club, so the club read by the SELECT is the
\* club the INSERT refers to, and the two awaits are taken in one step.
PostEvents(header, body) ==
  /\ LET g == Guards(header, secret, now)
     IN  IF ~g.next
         THEN /\ resp' = Reply("postEvents", g.res)
              /\ obs' = GatedObs("postEvents", header, body, g, FALSE)
              /\ UNCHANGED <<events, authors>>
         ELSE IF Falsy(body.clubId) \/ Falsy(body.title) \/ Falsy(body.startAt)
         THEN /\ resp' = Reply("postEvents", Send(400, "Missing clubId, title or startAt."))
              /\ obs' = GatedObs("postEvents", header, body, g, TRUE)
              /\ UNCHANGED <<events, authors>>
         ELSE
           LET rows == {c \in clubs : c.id = body.clubId.n}
           IN  IF Cardinality(rows) = 0
               THEN /\ resp' = Reply("postEvents", Send(404, "Club not found."))
                    /\ obs' = GatedObs("postEvents", header, body, g, TRUE)
                    /\ UNCHANGED <<events, authors>>
               ELSE
                 LET club == CHOOSE c \in rows : TRUE
                     me == g.user.payload
                 IN  IF me.role = "business"
                        /\ NumbersDiffer(ToNumber(club.owner_user_id),
                                         ToNumber(JSNum(me.userId)))
                     THEN /\ resp' = Reply("postEvents",
                               Send(403, "You can only create events for your own club."))
                          /\ obs' = GatedObs("postEvents", header, body, g, TRUE)
                          /\ UNCHANGED <<events, authors>>
                     ELSE
                       LET row == [id |-> NextId(events), club_id |-> club.id]
                       IN  /\ Cardinality(events) < MaxEvents
                           /\ events' = events \cup {row}
                           /\ authors' = authors \cup
                                {[event |-> row.id, userId |-> me.userId,
                                  role |-> me.role, owner |-> club.owner_user_id]}
                           /\ resp' = [op |-> "postEvents", status |-> 201,
                                       send |-> "json", row |-> row]
                           /\ obs' = GatedObs("postEvents", header, body, g, TRUE)
  /\ UNCHANGED <<users, clubs, secret, now, reg, issued>>

----------------------------------------------------------------------------
(* The clock *)

Expiry == ThirtyDays * TicksPerSecond

\* the instants looked at: just after start-up and around thirty days later
Instants == (0..ClockWindow) \cup {Expiry + d : d \in (0 - ClockWindow)..ClockWindow}

Tick(t) ==
  /\ t > now
  /\ now' = t
  /\ UNCHANGED <<users, clubs, events, secret, reg, issued, authors, resp, obs>>

----------------------------------------------------------------------------
(* Requests *)

Body3(e, p, u) == [email |-> e, password |-> p, username |-> u]

\* valid registrations: two that normalise alike, one sharing only the
\* username with them, one sharing only the email
RaceBodies ==
  { Body3(JSStr(EmailAB), JSStr(Pass8), JSStr(NameBob)),
    Body3(JSStr(EmailABPadded), JSStr(Pass8), JSStr(NameBobPadded)),
    Body3(JSStr(EmailCD), JSStr(Pass8), JSStr(NameBob)),
    Body3(JSStr(EmailAB), JSStr(Pass8), JSStr(NameAmy)) }

\* registrations violating every step of the pipeline, alone and together
PipelineBodies ==
  { Body3(e, p, u) :
      e \in {JSUndefined, JSNum(0), JSNum(5), JSStr(<<>>), JSStr(EmailNoAt),
             JSStr(EmailABPadded), JSStr(EmailCD)},
      p \in {JSUndefined, JSNum(5), JSStr(Pass7), JSStr(Pass8Padded)},
      u \in {JSUndefined, JSNum(5), JSStr(NameBo), JSStr(NameBlank),
             JSStr(NameDash), JSStr(NameTooLong), JSStr(NameLongest),
             JSStr(NameBobPadded)} }

\* registrations followed by logins
SignupBodies ==
  { Body3(JSStr(EmailABPadded), JSStr(Pass8), JSStr(NameBob)),
    Body3(JSStr(EmailCD), JSStr(Pass8Padded), JSStr(NameAmy)) }

Body2(e, p) == [email |-> e, password |-> p]

LoginBodies ==
  { Body2(e, p) :
      e \in {JSUndefined, JSNum(5), JSStr(EmailAB), JSStr(EmailABPadded),
             JSStr(EmailABUpper), JSStr(EmailCD), JSStr(EmailUnknown)},
      p \in {JSUndefined, JSNum(5), JSStr(Pass8), JSStr(Pass8Upper),
             JSStr(Pass8Padded), JSStr(Pass8Trailing)} }

\* the seeded accounts' credentials, right and wrong, and an unknown account
SeedLoginBodies ==
  { Body2(JSStr(u.email), JSStr(p)) : u \in SeedUsers, p \in {Pass8, Pass8Upper} }
  \cup { Body2(JSStr(EmailUnknown), JSStr(Pass8)) }

OneLoginBodies ==
  { Body2(JSStr(<<"x", "@", "4">>), JSStr(p)) : p \in {Pass8, Pass8Upper} }
  \cup { Body2(JSStr(EmailUnknown), JSStr(Pass8)) }

\* what a client can put after "Bearer ": nothing, text that is no token, a
\* token it was given, such a token with its claims edited, or a token signed
\* with a key of its own
Escalate(jwt) == [jwt EXCEPT !.claims.role = "admin"]
Prolong(jwt) == [jwt EXCEPT !.claims.exp = @ + ThirtyDays]
Forge(jwt) == [jwt EXCEPT !.sig.key = "attacker"]

AdminClaims ==
  [userId |-> 1, email |-> <<"x", "@", "1">>, username |-> <<"x", "_", "1">>,
   role |-> "admin", iat |-> 0, exp |-> ThirtyDays + ThirtyDays]

Credentials ==
  { [kind |-> "empty"], [kind |-> "garbage"],
    [kind |-> "jwt", claims |-> AdminClaims,
     sig |-> [key |-> "attacker", over |-> AdminClaims]] }
  \cup { t.jwt : t \in issued }
  \cup { Escalate(t.jwt) : t \in issued }
  \cup { Prolong(t.jwt) : t \in issued }
  \cup { Forge(Escalate(t.jwt)) : t \in issued }

Headers ==
  { NoHeader }
  \cup { Header("Bearer ", c) : c \in Credentials }
  \cup { Header(s, t.jwt) : s \in {"bearer ", "Basic "}, t \in issued }

\* the headers tried on the role-gated routes
RoleHeaders ==
  { NoHeader }
  \cup { Header("Bearer ", t.jwt) : t \in issued }
  \cup { Header("Bearer ", Escalate(t.jwt)) : t \in issued }

ClubBodies == { [name |-> JSUndefined], [name |-> JSStr(<<"c">>)] }

EventBody(c, t, a) == [clubId |-> c, title |-> t, startAt |-> a]

\* complete bodies for club 1, club 2 and a club that does not exist, and a
\* body missing a field
EventBodies ==
  { EventBody(JSNum(c), JSStr(<<"t">>), JSStr(<<"1">>)) : c \in {1, 2, 9} }
  \cup { EventBody(JSNum(1), JSUndefined, JSStr(<<"1">>)) }

----------------------------------------------------------------------------
(* Specifications *)

Init ==
  /\ users = SeedUsers
  /\ clubs = SeedClubs
  /\ events = {}
  /\ secret \in SecretConfigs
  /\ now = 0
  /\ reg = [i \in Slots |-> IdleSlot]
  /\ issued = {}
  /\ authors = {}
  /\ resp = NoResp
  /\ obs = NoObs

\* registration never reads the signing secret: its specifications start
\* with the secret set
InitConfigured == Init /\ ~SecretMissing(secret)

\* concurrent registrations
Next ==
  \/ \E i \in Slots, b \in RaceBodies : RegisterStart(i, b)
  \/ \E i \in Slots : RegisterEmailSelected(i)
  \/ \E i \in Slots : RegisterUsernameSelected(i)
  \/ \E i \in Slots : RegisterInserted(i)

Spec == InitConfigured /\ [][Next]_vars

\* registrations, one at a time, and logins
NextLogin ==
  \/ \E b \in SignupBodies : RegisterStart(1, b)
  \/ RegisterEmailSelected(1)
  \/ RegisterUsernameSelected(1)
  \/ RegisterInserted(1)
  \/ \E b \in LoginBodies : Login(b)

SpecLogin == Init /\ [][NextLogin]_vars

\* one registration at a time, over every kind of body
NextPipeline ==
  \/ \E b \in PipelineBodies : RegisterStart(1, b)
  \/ RegisterEmailSelected(1)
  \/ RegisterUsernameSelected(1)
  \/ RegisterInserted(1)

SpecPipeline == InitConfigured /\ [][NextPipeline]_vars

\* tokens over time: login, the clock, a route behind requireAuth, and a
\* registration changing the store meanwhile
NextGate ==
  \/ \E b \in OneLoginBodies : Login(b)
  \/ \E t \in Instants : Tick(t)
  \/ \E h \in Headers : GetMe(h)
  \/ RegisterStart(1, Body3(JSStr(EmailCD), JSStr(Pass8), JSStr(NameAmy)))
  \/ RegisterEmailSelected(1)
  \/ RegisterUsernameSelected(1)
  \/ RegisterInserted(1)

SpecGate == Init /\ [][NextGate]_vars

\* the routes behind requireAuth and requireRole
NextRole ==
  \/ \E b \in SeedLoginBodies : Login(b)
  \/ \E h \in RoleHeaders, b \in ClubBodies : PostClubs(h, b)
  \/ \E h \in RoleHeaders, b \in EventBodies : PostEvents(h, b)

SpecRole == Init /\ [][NextRole]_vars

----------------------------------------------------------------------------
(* Vocabulary of the properties *)

\* the conditions of the specification, by the response that reports them
Condition(r) ==
  CASE r.send = "Missing email, password, or username." -> "MissingFields"
    [] r.send = "Invalid input types." -> "InvalidTypes"
    [] r.send = "Invalid email." -> "InvalidEmail"
    [] r.send = "Password too short." -> "PasswordTooShort"
    [] r.send = "Username too short." -> "UsernameTooShort"
    [] r.send = "Username too long." -> "UsernameTooLong"
    [] r.send = "Username invalid. Use letters, numbers, underscore." -> "InvalidUsername"
    [] r.send = "Email already in use." -> "EmailTaken"
    [] r.send = "Username already in use." -> "UsernameTaken"
    [] r.send = "User created." -> "Created"
    [] OTHER -> "Unclassified"

IsText(v) == v.t = "string"

NormalEmail(v) == ToLowerCase(Trim(v.s))
NormalName(v) == Trim(v.s)

\* a request in flight is answered "already in use" exactly when the store
\* rejects its INSERT
AlreadyInUse(r) ==
  /\ r.status = 409
  /\ r.send \in {"Email already in use.", "Username already in use."}

----------------------------------------------------------------------------
(* C1 *)

\* C1: a registration whose INSERT the store rejects for uniqueness, after it
\* passed both existence checks, is answered 409 "already in use", as a
\* registration failing a check is, and not 500.
C1_LateConflictIsAlreadyInUse ==
  (obs.op = "register" /\ obs.insertRejected) => AlreadyInUse(resp)

----------------------------------------------------------------------------
(* C2 *)

\* email containing "@", password of at least 8 characters, username of 3 to
\* 20 characters from [A-Za-z0-9_]
ValidRegistration(body) ==
  /\ IsText(body.email) /\ IsText(body.password) /\ IsText(body.username)
  /\ Includes(body.email.s, "@")
  /\ Len(body.password.s) >= 8
  /\ Len(body.username.s) \in 3..20
  /\ \A i \in 1..Len(body.username.s) : body.username.s[i] \in WordChars

\* C2: a valid registration whose email and username are not in the store,
\* running with no other registration in flight, is answered 201 and adds a
\* user; whenever a registration is answered 201 the store holds exactly one
\* user with its email and exactly one with its username; and a registration
\* arriving when the store already holds a user with its email and username
\* is answered 409 EmailTaken or UsernameTaken and adds no user.
C2_RegistersExactlyOnce ==
  obs.op = "register" =>
    /\ (ValidRegistration(obs.body) /\ obs.freshAtStart /\ ~obs.overlapped)
         => (resp.status = 201 /\ obs.added)
    /\ resp.status = 201 =>
         /\ obs.added
         /\ Cardinality({u \in users : u.email = NormalEmail(obs.body.email)}) = 1
         /\ Cardinality({u \in users : u.username = NormalName(obs.body.username)}) = 1
    /\ obs.sameAtStart =>
         /\ AlreadyInUse(resp)
         /\ Condition(resp) \in {"EmailTaken", "UsernameTaken"}
         /\ ~obs.added

\* a second identical registration was just refused
C2_Witness ==
  /\ obs.op = "register"
  /\ obs.sameAtStart
  /\ resp.status = 409
  /\ \E u \in users \ SeedUsers : u.email = NormalEmail(obs.body.email)

----------------------------------------------------------------------------
(* C8 *)

PipelineOrder ==
  << "MissingFields", "InvalidTypes", "InvalidEmail", "PasswordTooShort",
     "UsernameTooShort", "UsernameTooLong", "InvalidUsername", "EmailTaken",
     "UsernameTaken" >>

AllText(body) == IsText(body.email) /\ IsText(body.password) /\ IsText(body.username)

\* each step's check on its own; a field counts as present when it is truthy
Violates(step, body, us) ==
  CASE step = "MissingFields" ->
         Falsy(body.email) \/ Falsy(body.password) \/ Falsy(body.username)
    [] step = "InvalidTypes" -> ~AllText(body)
    [] step = "InvalidEmail" ->
         IsText(body.email) /\ ~Includes(NormalEmail(body.email), "@")
    [] step = "PasswordTooShort" ->
         IsText(body.password) /\ Len(body.password.s) < 8
    [] step = "UsernameTooShort" ->
         IsText(body.username) /\ Len(NormalName(body.username)) < 3
    [] step = "UsernameTooLong" ->
         IsText(body.username) /\ Len(NormalName(body.username)) > 20
    [] step = "InvalidUsername" ->
         IsText(body.username)
         /\ \E i \in 1..Len(NormalName(body.username)) :
              NormalName(body.username)[i] \notin WordChars
    [] step = "EmailTaken" ->
         IsText(body.email) /\ \E u \in us : u.email = NormalEmail(body.email)
    [] step = "UsernameTaken" ->
         IsText(body.username) /\ \E u \in us : u.username = NormalName(body.username)

FirstViolated(body, us) ==
  LET bad == {k \in 1..Len(PipelineOrder) : Violates(PipelineOrder[k], body, us)}
  IN  IF bad = {} THEN "Created"
      ELSE PipelineOrder[CHOOSE k \in bad : \A j \in bad : k <= j]

\* the store as the request answered last found it
UsersBefore ==
  IF obs.op = "register" /\ obs.added
  THEN {u \in users : u.email # NormalEmail(obs.body.email)}
  ELSE users

\* C8: the response of a registration is the condition of the earliest step
\* of the pipeline that its body violates, a client error (400 or 409), and
\* the user is hashed and inserted only when no step is violated.
C8_FirstFailingCheckWins ==
  obs.op = "register" =>
    /\ Condition(resp) = FirstViolated(obs.body, UsersBefore)
    /\ Condition(resp) \in {"EmailTaken", "UsernameTaken"} <=> resp.status = 409
    /\ Condition(resp) = "Created" <=> resp.status = 201
    /\ Condition(resp) \notin {"EmailTaken", "UsernameTaken", "Created"}
         <=> resp.status = 400
    /\ obs.added <=> FirstViolated(obs.body, UsersBefore) = "Created"
    /\ obs.added =>
         \E u \in users :
           /\ u.email = NormalEmail(obs.body.email)
           /\ u.password_hash = BcryptHash(obs.body.password.s, 12)

\* a body violating several steps was answered with the earliest of them
C8_Witness ==
  /\ obs.op = "register"
  /\ Condition(resp) = "PasswordTooShort"
  /\ Violates("UsernameTooLong", obs.body, users)
  /\ Violates("EmailTaken", obs.body, users)

----------------------------------------------------------------------------
(* C3 *)

WellTypedLogin(body) ==
  /\ IsText(body.email) /\ body.email.s # <<>>
  /\ IsText(body.password) /\ body.password.s # <<>>

NoSuchUser(body, us) == ~\E u \in us : u.email = NormalEmail(body.email)

WrongPassword(body, us) ==
  \E u \in us : u.email = NormalEmail(body.email) /\ u.password_hash.of # body.password.s

InvalidCredentials(r) == r.status = 401 /\ r.send = "Invalid credentials."

\* C3: for well-typed, non-empty email and password, a login for an email no
\* user has and a login with a wrong password for a user that exists get the
\* same response, 401 "Invalid credentials.", whatever the store holds and
\* whether or not the signing secret is set.
C3_LoginFailuresIndistinguishable ==
  /\ \A sec \in SecretConfigs :
       LET unknown == {b \in LoginBodies : WellTypedLogin(b) /\ NoSuchUser(b, users)}
           wrong == {b \in LoginBodies : WellTypedLogin(b) /\ WrongPassword(b, users)}
           answers == {LoginHandle(users, sec, now, b) : b \in unknown \cup wrong}
       IN  /\ Cardinality(answers) <= 1
           /\ \A r \in answers : InvalidCredentials(r)
  /\ (/\ obs.op = "login" /\ WellTypedLogin(obs.body)
      /\ (NoSuchUser(obs.body, users) \/ WrongPassword(obs.body, users)))
     => resp = [op |-> "login", status |-> 401, send |-> "Invalid credentials."]

\* a wrong password for a registered user was refused while the secret is not set
C3_Witness ==
  /\ obs.op = "login"
  /\ WellTypedLogin(obs.body)
  /\ WrongPassword(obs.body, users \ SeedUsers)
  /\ InvalidCredentials(resp)
  /\ SecretMissing(secret)

----------------------------------------------------------------------------
(* C10 *)

\* C10: every stored email is in normal form (trimmed, lowercase); a login
\* whose email normalises to a user's email and whose password is that
\* user's password as sent finds the user, and is answered with a token for
\* that user when the signing secret is set (with "JWT_SECRET not set."
\* otherwise); a password differing from the registered one in case or
\* surrounding space is refused; and a registration stores the hash of the
\* password as sent.
C10_EmailNormalisedPasswordVerbatim ==
  /\ \A u \in users : u.email = ToLowerCase(Trim(u.email))
  /\ \A u \in users : \A b \in LoginBodies :
       (WellTypedLogin(b) /\ NormalEmail(b.email) = u.email) =>
         LET r == LoginHandle(users, secret, now, b)
         IN  IF b.password.s = u.password_hash.of
             THEN IF SecretMissing(secret)
                  THEN r = Send(500, "JWT_SECRET not set.")
                  ELSE /\ r.status = 200
                       /\ r.token.claims.userId = u.id
                       /\ r.token.claims.email = u.email
             ELSE InvalidCredentials(r)
  /\ (obs.op = "register" /\ obs.added) =>
       \E u \in users :
         /\ u.email = NormalEmail(obs.body.email)
         /\ u.password_hash.of = obs.body.password.s
  /\ (obs.op = "login" /\ resp.status = 200) =>
       \E u \in users :
         /\ u.email = NormalEmail(obs.body.email)
         /\ u.password_hash.of = obs.body.password.s
         /\ resp.token.claims.userId = u.id

\* a user registered with a padded, capitalised email logged in with the email
\* written differently again
C10_Witness ==
  /\ obs.op = "login"
  /\ resp.status = 200
  /\ obs.body.email.s = EmailABUpper
  /\ \E u \in users \ SeedUsers : resp.token.claims.userId = u.id

----------------------------------------------------------------------------
(* C4 *)

\* a token login returned, presented while the secret is set and before the
\* second it expires in
Genuine(token) ==
  /\ token.kind = "jwt"
  /\ \E t \in issued : t.jwt = token
  /\ ~SecretMissing(secret)
  /\ NowSeconds(now) < token.claims.exp

WellFormedBearer(h) ==
  h.present /\ h.scheme = "Bearer " /\ h.rest.kind \notin {"empty", "null"}

\* C4: requireAuth calls next only for a header "Bearer " followed by a token
\* that verifies, and then the request carries the token's claims; without a
\* header, with another scheme or with an empty token it answers 401, and
\* when verification fails it answers 401, and in neither case is next
\* called or the handler run.
C4_AuthGate ==
  /\ \A h \in Headers :
       LET g == RequireAuth(h, secret, now)
       IN  /\ g.next => /\ WellFormedBearer(h)
                        /\ Genuine(h.rest)
                        /\ g.user = [attached |-> TRUE, payload |-> h.rest.claims]
           /\ ~WellFormedBearer(h) => (~g.next /\ g.res.status = 401)
           /\ (WellFormedBearer(h) /\ ~SecretMissing(secret) /\ ~Genuine(h.rest))
                => (~g.next /\ g.res.status = 401)
           /\ (WellFormedBearer(h) /\ Genuine(h.rest)) => g.next
  /\ obs.op = "me" =>
       /\ obs.ran <=> obs.passed
       /\ obs.ran => /\ WellFormedBearer(obs.header)
                     /\ obs.header.rest.sig.key = secret.value
                     /\ obs.header.rest.sig.over = obs.header.rest.claims
                     /\ \E t \in issued : t.jwt = obs.header.rest
                     /\ obs.user.payload = obs.header.rest.claims
       /\ ~obs.ran => resp.status \in {401, 500}

\* a token with edited claims was refused
C4_Witness ==
  /\ obs.op = "me"
  /\ \E t \in issued : obs.header = Header("Bearer ", Prolong(t.jwt))
  /\ resp.status = 401
  /\ ~obs.ran

----------------------------------------------------------------------------
(* C7 *)

CorrectCredentials(body, us) ==
  /\ WellTypedLogin(body)
  /\ \E u \in us : u.email = NormalEmail(body.email) /\ u.password_hash.of = body.password.s

ConfigurationMissing(r) == r.status = 500 /\ r.send = "JWT_SECRET not set."

\* C7: while the secret is not set, a login with correct credentials is
\* answered 500 "JWT_SECRET not set." and no token is issued, requireAuth
\* answers every request presenting a bearer token with the same condition
\* and never calls next; and a token is only ever signed with the configured
\* secret.
C7_NoSecretNoTokens ==
  /\ SecretMissing(secret) =>
       /\ issued = {}
       /\ \A b \in OneLoginBodies \cup LoginBodies :
            CorrectCredentials(b, users)
              => LoginHandle(users, secret, now, b) = Send(500, "JWT_SECRET not set.")
       /\ \A h \in Headers :
            WellFormedBearer(h) =>
              LET g == RequireAuth(h, secret, now)
              IN  ~g.next /\ ConfigurationMissing(g.res)
       /\ (obs.op = "login" /\ CorrectCredentials(obs.body, users))
            => ConfigurationMissing(resp)
       /\ obs.op = "me" => ~obs.ran
       /\ (obs.op = "me" /\ WellFormedBearer(obs.header)) => ConfigurationMissing(resp)
  /\ \A t \in issued : t.jwt.sig.key = secret.value /\ secret.defined /\ secret.value # ""
  /\ (obs.op = "login" /\ resp.status = 200) =>
       (resp.token.sig.key = secret.value /\ ~SecretMissing(secret))

\* a login with correct credentials was answered ConfigurationMissing
C7_Witness ==
  /\ SecretMissing(secret)
  /\ obs.op = "login"
  /\ CorrectCredentials(obs.body, users)
  /\ ConfigurationMissing(resp)

----------------------------------------------------------------------------
(* C9 *)

Presented(t) == RequireAuth(Header("Bearer ", t.jwt), secret, now)

\* C9 as stated: a token issued at T is accepted at every T' < T + 30 days
\* and refused with 401 at every T' >= T + 30 days.
C9_AcceptedUntilThirtyDaysLater ==
  \A t \in issued :
    /\ now < t.at + Expiry => Presented(t).next
    /\ now >= t.at + Expiry => (~Presented(t).next /\ Presented(t).res.status = 401)

\* C9, amended: with both times taken in whole seconds (rounded down), a token
\* issued by login in second S is accepted in every second before
\* S + 30 days and refused with 401 from second S + 30 days on, whatever
\* requests the server handled in between; so it is refused at every
\* T' >= T + 30 days, and accepted at every T' up to one second before that.
C9_ExpiresAfterThirtyDaysInSeconds ==
  \A t \in issued :
    LET g == Presented(t)
    IN  /\ NowSeconds(now) < NowSeconds(t.at) + 2592000
             => (g.next /\ g.user.payload = t.jwt.claims)
        /\ NowSeconds(now) >= NowSeconds(t.at) + 2592000
             => (~g.next /\ g.res = Send(401, "Invalid token."))
        /\ now >= t.at + Expiry => ~g.next
        /\ now + TicksPerSecond <= t.at + Expiry => g.next
        /\ t.jwt.claims.iat = NowSeconds(t.at)
        /\ t.jwt.claims.exp = NowSeconds(t.at) + 2592000

\* a token was refused less than thirty days after it was issued, after the
\* store had changed
C9_Witness ==
  /\ obs.op = "me"
  /\ \E t \in issued :
       /\ obs.header = Header("Bearer ", t.jwt)
       /\ now < t.at + Expiry
  /\ resp.status = 401
  /\ users # SeedUsers

----------------------------------------------------------------------------
(* C5 *)

\* request contexts: none attached, and claims with each role or with none
ClaimsWithRole(role) ==
  [attached |-> TRUE,
   payload |-> [userId |-> 4, email |-> <<"x", "@", "4">>, username |-> <<"x", "_", "4">>,
                role |-> role, iat |-> 0, exp |-> 2592000]]

IdentityContexts ==
  { NoIdentity } \cup { ClaimsWithRole(r) : r \in {"user", "business", "admin", "undefined"} }

AllowLists == { {"business", "admin"}, {"admin"}, {} }

RoleGated(o) == o.op \in {"postClubs", "postEvents"}

\* C5: requireRole(allowed) answers 403 when the identity's role is absent or
\* not in the list, refuses when no identity is attached, and calls next
\* otherwise; the handlers of POST /clubs and POST /events run only for a
\* token login issued, still valid, whose role is business or admin.
C5_RoleGate ==
  /\ \A allowed \in AllowLists : \A id \in IdentityContexts :
       LET g == RequireRole(allowed, id)
       IN  /\ ~id.attached => (~g.next /\ g.res.status \in {401, 403})
           /\ (id.attached /\ id.payload.role \notin allowed)
                => (~g.next /\ g.res.status = 403)
           /\ (id.attached /\ id.payload.role \in allowed) => g.next
  /\ RoleGated(obs) =>
       /\ obs.ran <=> obs.passed
       /\ obs.ran =>
            /\ WellFormedBearer(obs.header)
            /\ Genuine(obs.header.rest)
            /\ obs.header.rest.claims.role \in {"business", "admin"}
            /\ obs.user.payload = obs.header.rest.claims
       /\ (obs.user.attached /\ obs.user.payload.role \notin {"business", "admin"})
            => (resp.status = 403 /\ ~obs.ran)
       /\ ~obs.ran => resp.status \in {401, 403, 500}
  /\ \A c \in clubs \ SeedClubs :
       \E u \in users : JSNum(u.id) = c.owner_user_id /\ u.role \in {"business", "admin"}

\* a token with role "user" was refused by POST /clubs
C5_Witness ==
  /\ obs.op = "postClubs"
  /\ obs.user.attached
  /\ obs.user.payload.role = "user"
  /\ resp.status = 403
  /\ ~obs.ran

----------------------------------------------------------------------------
(* C6 *)

CompleteEvent(body) == ~Falsy(body.clubId) /\ ~Falsy(body.title) /\ ~Falsy(body.startAt)

ClubOf(body) == {c \in clubs : JSNum(c.id) = body.clubId}

Owns(userId, club) == club.owner_user_id = JSNum(userId)

\* C6: every event created by a business caller belongs to a club that caller
\* owned when it was created; a business caller asking for an event under an
\* existing club of another owner is answered 403; an admin, and a business
\* caller on its own club, get the event created.
C6_EventOwnership ==
  /\ \A a \in authors :
       /\ a.role \in {"business", "admin"}
       /\ \E e \in events : \E c \in clubs :
            /\ e.id = a.event /\ c.id = e.club_id
            /\ c.owner_user_id = a.owner
            /\ a.role = "business" => Owns(a.userId, c)
  /\ Cardinality(authors) = Cardinality(events)
  /\ (obs.op = "postEvents" /\ obs.ran /\ CompleteEvent(obs.body) /\ ClubOf(obs.body) # {}) =>
       LET me == obs.user.payload
           club == CHOOSE c \in ClubOf(obs.body) : TRUE
       IN  /\ (me.role = "business" /\ ~Owns(me.userId, club)) =>
                /\ resp.status = 403
                /\ ~\E a \in authors : a.userId = me.userId /\ a.owner = club.owner_user_id
           /\ (me.role = "admin" \/ Owns(me.userId, club)) =>
                /\ resp.status = 201
                /\ resp.row \in events
                /\ resp.row.club_id = club.id
                /\ \E a \in authors : a.event = resp.row.id /\ a.userId = me.userId

\* a business caller was refused an event under another owner's club, after an
\* admin had created one there
C6_Witness ==
  /\ obs.op = "postEvents"
  /\ obs.ran
  /\ obs.user.payload.role = "business"
  /\ resp.status = 403
  /\ \E a \in authors : a.role = "admin" /\ a.owner # JSNum(a.userId)

====
